---- MODULE Spec2Model ----
(***************************************************************************)
(* A model of bbcode-ast: the node model of src/src/node.ts and the        *)
(* character state machine Parser.parse of src/src/parser.ts.              *)
(*                                                                         *)
(* A string is a sequence of one-character strings, so that the parser     *)
(* reads its input one character at a time as the code does.  A node is a  *)
(* record with the fields of all four node classes; `kind` tells the class.*)
(***************************************************************************)
EXTENDS Integers, Sequences, FiniteSets, TLC

\* ------------------------------------------------------------------ strings

\* String.prototype.toLowerCase on the letters the model uses.
UpperToLower ==
  ("A" :> "a") @@ ("B" :> "b") @@ ("C" :> "c") @@ ("D" :> "d") @@ ("E" :> "e") @@
  ("I" :> "i") @@ ("L" :> "l") @@ ("N" :> "n") @@ ("O" :> "o") @@ ("R" :> "r") @@
  ("S" :> "s") @@ ("T" :> "t") @@ ("X" :> "x")

toLowerCase(s) ==
  [i \in 1..Len(s) |-> IF s[i] \in DOMAIN UpperToLower THEN UpperToLower[s[i]] ELSE s[i]]

S_code == <<"c", "o", "d", "e">>
S_list == <<"l", "i", "s", "t">>
S_star == <<"*">>
S_RootNode == <<"R", "o", "o", "t", "N", "o", "d", "e">>
S_TextNode == <<"T", "e", "x", "t", "N", "o", "d", "e">>

RECURSIVE Concat(_)
\* Array.prototype.join("") / repeated += over a sequence of strings.
Concat(ss) == IF ss = <<>> THEN <<>> ELSE Head(ss) \o Concat(Tail(ss))

\* ------------------------------------------------------- attributes (objects)

\* The decimal digits, for the keys a JavaScript object treats as array indices.
DigitVal ==
  ("0" :> 0) @@ ("1" :> 1) @@ ("2" :> 2) @@ ("3" :> 3) @@ ("4" :> 4) @@
  ("5" :> 5) @@ ("6" :> 6) @@ ("7" :> 7) @@ ("8" :> 8) @@ ("9" :> 9)

\* A canonical array index: decimal digits with no leading zero.
IsArrayIndex(k) ==
  /\ k # <<>>
  /\ \A i \in 1..Len(k) : k[i] \in DOMAIN DigitVal
  /\ (Len(k) > 1 => k[1] # "0")

RECURSIVE ToNat(_)
ToNat(k) == IF k = <<>> THEN 0 ELSE 10 * ToNat(SubSeq(k, 1, Len(k) - 1)) + DigitVal[k[Len(k)]]

\* An object { [key: string]: string } is the sequence of its entries in the
\* order Object.entries lists them: array-index keys first, ascending, then the
\* other keys in insertion order.
EmptyObject == <<>>

HasKey(obj, k) == \E i \in 1..Len(obj) : obj[i].key = k

\* Where a new key k is inserted: the number of entries that stay before it.
InsertAt(obj, k) ==
  IF IsArrayIndex(k)
  THEN Cardinality({i \in 1..Len(obj) : IsArrayIndex(obj[i].key) /\ ToNat(obj[i].key) < ToNat(k)})
  ELSE Len(obj)

\* obj[k] = v
ObjectSet(obj, k, v) ==
  IF HasKey(obj, k)
  THEN [i \in 1..Len(obj) |-> IF obj[i].key = k THEN [key |-> k, value |-> v] ELSE obj[i]]
  ELSE LET n == InsertAt(obj, k)
       IN SubSeq(obj, 1, n) \o <<[key |-> k, value |-> v]>> \o SubSeq(obj, n + 1, Len(obj))

\* --------------------------------------------------------------------- nodes

\* new TextNode(text)
TextNode(t) ==
  [kind |-> "Text", name |-> S_TextNode, text |-> t, hasValue |-> FALSE,
   value |-> <<>>, attributes |-> EmptyObject, children |-> <<>>]

\* new RootNode(children)
RootNode(ch) ==
  [kind |-> "Root", name |-> S_RootNode, text |-> <<>>, hasValue |-> FALSE,
   value |-> <<>>, attributes |-> EmptyObject, children |-> ch]

\* new ListItemNode(children)
ListItemNode(ch) ==
  [kind |-> "ListItem", name |-> S_star, text |-> <<>>, hasValue |-> FALSE,
   value |-> <<>>, attributes |-> EmptyObject, children |-> ch]

\* new Node({ name, attributes }): value is undefined until it is assigned.
Node(n, attrs) ==
  [kind |-> "Tag", name |-> n, text |-> <<>>, hasValue |-> FALSE,
   value |-> <<>>, attributes |-> attrs, children |-> <<>>]

\* node.value = v
SetValue(node, v) == [node EXCEPT !.hasValue = TRUE, !.value = v]

RECURSIVE clone(_)
\* clone of the four node classes: new node objects all the way down; a Tag's
\* clone is given `this.attributes`, the attributes object of the original.
clone(node) ==
  LET children == [i \in 1..Len(node.children) |-> clone(node.children[i])]
  IN CASE node.kind = "Text" -> TextNode(node.text)
       [] node.kind = "Root" -> RootNode(children)
       [] node.kind = "ListItem" -> ListItemNode(children)
       [] OTHER -> [Node(node.name, node.attributes) EXCEPT
                      !.hasValue = node.hasValue, !.value = node.value,
                      !.children = children]

\* An addChild that never merges.
addChild_AlwaysPush(parent, child) == [parent EXCEPT !.children = Append(@, clone(child))]

\* Node.addChild and RootNode.addChild: a Text merges into a last Text child,
\* any other child is stored as a clone.
addChild(parent, child) ==
  IF /\ child.kind = "Text"
     /\ parent.children # <<>>
     /\ parent.children[Len(parent.children)].kind = "Text"
  THEN [parent EXCEPT !.children[Len(parent.children)].text = @ \o child.text]
  ELSE [parent EXCEPT !.children = Append(@, clone(child))]

\* The part of makeOpeningTag that writes the attributes.
RECURSIVE AttributesText(_)
AttributesText(obj) ==
  IF obj = <<>> THEN <<>>
  ELSE <<" ">> \o Head(obj).key \o <<"=">> \o Head(obj).value \o AttributesText(Tail(obj))

\* The part of makeOpeningTag that writes the value: `if (this.value)`.
ValueText(node) ==
  IF node.hasValue /\ node.value # <<>> THEN <<"=">> \o node.value ELSE <<>>

\* Node.makeOpeningTag
makeOpeningTag(node) ==
  <<"[">> \o node.name \o ValueText(node) \o AttributesText(node.attributes) \o <<"]">>

RECURSIVE toString(_)
\* toString of the four node classes.
toString(node) ==
  LET body == Concat([i \in 1..Len(node.children) |-> toString(node.children[i])])
  IN CASE node.kind = "Text" -> node.text
       [] node.kind = "Root" -> body
       [] node.kind = "ListItem" -> <<"[", "*", "]">> \o body
       [] OTHER -> makeOpeningTag(node) \o body \o <<"[", "/">> \o node.name \o <<"]">>

\* ------------------------------------------------------- nodes: object identity
\* Where it matters which object an attributes mapping is, a Tag's `attributes`
\* is the index of its object in a heap, the sequence of the attributes objects
\* created so far.

RECURSIVE Allocate(_, _)
RECURSIVE AllocateAll(_, _)
\* A tree of new nodes, each Tag with an attributes object of its own, as the
\* constructors and parse make them.
Allocate(node, heap) ==
  LET isTag == node.kind = "Tag"
      rest == AllocateAll(node.children, IF isTag THEN Append(heap, node.attributes) ELSE heap)
  IN [node |-> [node EXCEPT !.attributes = IF isTag THEN Len(heap) + 1 ELSE @,
                            !.children = rest.nodes],
      heap |-> rest.heap]

AllocateAll(nodes, heap) ==
  IF nodes = <<>> THEN [nodes |-> <<>>, heap |-> heap]
  ELSE LET first == Allocate(Head(nodes), heap)
           rest == AllocateAll(Tail(nodes), first.heap)
       IN [nodes |-> <<first.node>> \o rest.nodes, heap |-> rest.heap]

RECURSIVE Resolve(_, _)
\* What a program reads in a tree: every Tag with the entries of its object.
Resolve(node, heap) ==
  [node EXCEPT !.attributes = IF node.kind = "Tag" THEN heap[@] ELSE @,
               !.children = [i \in 1..Len(node.children) |-> Resolve(node.children[i], heap)]]

\* ------------------------------------------------------------ parser: outcome

\* How a parse call stands: running, returned (`return rootNode`), thrown
\* Error of line 223 (mismatch) or of line 400 (unclosed), or a TypeError thrown
\* by the runtime (a method missing on the receiver, a call on undefined).
Outcome(k, closing, found, count, name) ==
  [kind |-> k, closing |-> closing, found |-> found, count |-> count, name |-> name]

Running == Outcome("running", <<>>, <<>>, 0, <<>>)
Returned == Outcome("returned", <<>>, <<>>, 0, <<>>)
TypeError == Outcome("TypeError", <<>>, <<>>, 0, <<>>)
\* `Expected closing tag for '${currentTagName}', found '${lastElement.name}'.`
MismatchError(tagName, elementName) == Outcome("MismatchError", tagName, elementName, 0, <<>>)
\* `Expected all tags to be closed. Found ${n} unclosed tags, most recently unclosed tag is "${name}".`
UnclosedError(n, elementName) == Outcome("UnclosedError", <<>>, <<>>, n, elementName)

\* ------------------------------------------------- parser: pure step functions
\* Every operator below takes the record p of the locals of one parse call and
\* the parser's configuration cfg = [supportedTagNames, caseSensitive, lenient].

\* Parser.getNameRespectingSensitivity
getNameRespectingSensitivity(cfg, n) == IF cfg.caseSensitive THEN n ELSE toLowerCase(n)

\* A constructor that keeps the allow-list as it is given.
Parser_KeepsNames(names, caseSensitive, lenient) ==
  [supportedTagNames |-> names, caseSensitive |-> caseSensitive, lenient |-> lenient]

\* The constructor: the allow-list is lowercased unless caseSensitive.
Parser(names, caseSensitive, lenient) ==
  [supportedTagNames |-> IF caseSensitive THEN names ELSE {toLowerCase(n) : n \in names},
   caseSensitive |-> caseSensitive,
   lenient |-> lenient]

\* The locals of parse as declared on lines 114-144.
InitLocals(input) ==
  [textLeft |-> input,
   currentStack |-> <<RootNode(<<>>)>>,
   currentText |-> <<>>,
   buildingText |-> TRUE,
   buildingTagName |-> FALSE,
   buildingValue |-> FALSE,
   buildingAttributeName |-> FALSE,
   buildingClosingTag |-> FALSE,
   buildingCode |-> FALSE,
   quoted |-> FALSE,
   currentTagName |-> <<>>,
   currentTagValue |-> <<>>,
   currentTagAttributes |-> EmptyObject,
   currentTagAttributeName |-> <<>>,
   currentTagAttributeValue |-> <<>>,
   outcome |-> Running]

Top(stack) == stack[Len(stack)]
Pop(stack) == SubSeq(stack, 1, Len(stack) - 1)
\* A variant of AddToTop that drops the child.
AddToTop_DropsChild(stack, child) == stack

\* currentStack[currentStack.length - 1].addChild(child), on a non-empty stack
AddToTop(stack, child) == [stack EXCEPT ![Len(stack)] = addChild(@, child)]

\* nodeText of lines 241-244 and 410-413: the opening tag and the children.
FlattenText(node) ==
  makeOpeningTag(node) \o Concat([i \in 1..Len(node.children) |-> toString(node.children[i])])

\* Only Node has makeOpeningTag: `(node as Node).makeOpeningTag()` on a RootNode
\* or a ListItemNode calls undefined.
HasMakeOpeningTag(node) == node.kind = "Tag"

\* A Text mode that flushes the text buffer at `[` even when it is empty.
TextMode_FlushesEmptyText(p, c) ==
  IF c = "["
  THEN [p EXCEPT !.buildingText = FALSE,
                 !.buildingTagName = TRUE,
                 !.currentTagName = <<>>,
                 !.currentStack = AddToTop(@, TextNode(p.currentText)),
                 !.currentText = <<>>]
  ELSE [p EXCEPT !.currentText = @ \o <<c>>]

\* Lines 152-169: Text mode.
TextMode(p, c) ==
  IF c = "["
  THEN [p EXCEPT !.buildingText = FALSE,
                 !.buildingTagName = TRUE,
                 !.currentTagName = <<>>,
                 !.currentStack = IF p.currentText # <<>>
                                  THEN AddToTop(@, TextNode(p.currentText)) ELSE @,
                 !.currentText = <<>>]
  ELSE [p EXCEPT !.currentText = @ \o <<c>>]

\* A variant of ListItemBoundary that leaves an open list item on the stack.
ListItemBoundary_KeepsItemOpen(p, c) ==
  [p EXCEPT !.currentTagName = @ \o <<c>>]

\* Lines 174-185: `*` as the first character of an opening tag name closes an
\* open list item.
ListItemBoundary(p, c) ==
  LET lastStackElement == Top(p.currentStack)
  IN [p EXCEPT !.currentStack = IF lastStackElement.name = S_star
                                 THEN AddToTop(Pop(@), lastStackElement) ELSE @,
                !.currentTagName = @ \o <<c>>]

\* Lines 191-196: is the tag name valid here?
IsValidTagName(cfg, p) ==
  /\ getNameRespectingSensitivity(cfg, p.currentTagName) \in cfg.supportedTagNames
  /\ (~p.buildingCode \/ toLowerCase(p.currentTagName) = S_code)

RECURSIVE LenientSearch(_, _, _, _)
\* Lines 230-247: the loop over the stack, from index i (1-based) downwards.
\* The result is the stack, the element to close and whether a TypeError was
\* thrown.
LenientSearch(cfg, stack, i, tagName) ==
  IF i < 1
  THEN [threw |-> FALSE, found |-> FALSE, stack |-> stack, lastElement |-> RootNode(<<>>)]
  ELSE IF getNameRespectingSensitivity(cfg, stack[i].name)
            = getNameRespectingSensitivity(cfg, tagName)
  THEN [threw |-> FALSE, found |-> TRUE, stack |-> Pop(stack), lastElement |-> Top(stack)]
  ELSE LET node == Top(stack)
       IN IF ~HasMakeOpeningTag(node) \/ i - 1 < 1
          THEN [threw |-> TRUE, found |-> FALSE, stack |-> Pop(stack), lastElement |-> node]
          ELSE LenientSearch(cfg,
                             [Pop(stack) EXCEPT ![i - 1] = addChild(@, TextNode(FlattenText(node)))],
                             i - 1, tagName)

\* A variant of PopForClosing that does not fold a list item for [/list].
PopForClosing_NoFold(p) ==
  [lastElement |-> Top(p.currentStack), stack |-> Pop(p.currentStack)]

\* Lines 208-216: the element a closing tag closes, and the stack left under
\* it: the top of the stack, or for [/list] over an open list item the element
\* under that item with the item folded into it.
PopForClosing(p) ==
  LET lastElement == Top(p.currentStack)
      rest == Pop(p.currentStack)
  IN IF toLowerCase(p.currentTagName) = S_list /\ lastElement.name = S_star
     THEN [lastElement |-> addChild(Top(rest), lastElement), stack |-> Pop(rest)]
     ELSE [lastElement |-> lastElement, stack |-> rest]

\* Lines 251-259: the closed element becomes a child of the top of the stack.
FinishClosing(p, stack, lastElement) ==
  IF stack = <<>>
  THEN [p EXCEPT !.currentStack = stack, !.outcome = TypeError]
  ELSE [p EXCEPT !.currentStack = AddToTop(stack, lastElement),
                 !.buildingText = TRUE,
                 !.buildingClosingTag = FALSE,
                 !.buildingTagName = FALSE,
                 !.buildingCode = IF toLowerCase(p.currentTagName) = S_code THEN FALSE ELSE @,
                 !.currentTagName = <<>>]

\* A closing tag that leaves an open list item open: [/*] only ends the tag.
ClosingTag_IgnoresListItem(cfg, p) ==
  IF p.currentTagName = S_star
  THEN [p EXCEPT !.buildingText = TRUE,
                 !.buildingClosingTag = FALSE,
                 !.buildingTagName = FALSE,
                 !.currentTagName = <<>>]
  ELSE LET popped == PopForClosing(p)
           lastElement == popped.lastElement
       IN IF getNameRespectingSensitivity(cfg, lastElement.name)
               # getNameRespectingSensitivity(cfg, p.currentTagName)
          THEN IF ~cfg.lenient
               THEN [p EXCEPT !.currentStack = popped.stack,
                              !.outcome = MismatchError(p.currentTagName, lastElement.name)]
               ELSE LET pushed == Append(popped.stack, lastElement)
                        r == LenientSearch(cfg, pushed, Len(pushed), p.currentTagName)
                    IN IF r.threw
                       THEN [p EXCEPT !.currentStack = r.stack, !.outcome = TypeError]
                       ELSE FinishClosing(p, r.stack,
                                          IF r.found THEN r.lastElement ELSE lastElement)
          ELSE FinishClosing(p, popped.stack, lastElement)

\* Lines 206-259: a valid closing tag is completed by `]`.
ClosingTag(cfg, p) ==
  LET popped == PopForClosing(p)
      lastElement == popped.lastElement
  IN IF getNameRespectingSensitivity(cfg, lastElement.name)
          # getNameRespectingSensitivity(cfg, p.currentTagName)
     THEN IF ~cfg.lenient
          THEN [p EXCEPT !.currentStack = popped.stack,
                         !.outcome = MismatchError(p.currentTagName, lastElement.name)]
          ELSE LET pushed == Append(popped.stack, lastElement)
                   r == LenientSearch(cfg, pushed, Len(pushed), p.currentTagName)
               IN IF r.threw
                  THEN [p EXCEPT !.currentStack = r.stack, !.outcome = TypeError]
                  ELSE FinishClosing(p, r.stack, IF r.found THEN r.lastElement ELSE lastElement)
     ELSE FinishClosing(p, popped.stack, lastElement)

\* Lines 198-271: `]` ends a valid tag name.
CompleteTag(cfg, p) ==
  IF p.currentTagName = S_star /\ ~p.buildingClosingTag
  THEN [p EXCEPT !.currentStack = Append(@, ListItemNode(<<>>)),
                 !.buildingText = TRUE,
                 !.buildingTagName = FALSE,
                 !.currentTagName = <<>>]
  ELSE IF p.buildingClosingTag
  THEN ClosingTag(cfg, p)
  ELSE [p EXCEPT !.currentStack = Append(@, Node(p.currentTagName, EmptyObject)),
                 !.buildingTagName = FALSE,
                 !.buildingText = TRUE,
                 !.buildingCode = IF toLowerCase(p.currentTagName) = S_code THEN TRUE ELSE @,
                 !.currentTagName = <<>>]

\* Lines 282-290: the tag name is not valid; the bracket sequence becomes text.
RejectTag(p, c) ==
  [p EXCEPT !.buildingText = TRUE,
            !.buildingTagName = FALSE,
            !.currentText = @ \o (IF p.buildingClosingTag THEN <<"[", "/">> ELSE <<"[">>)
                              \o p.currentTagName \o <<c>>]

\* An end of the tag name that leaves the name flag set when the name ends at
\* `=`.
EndTagName_KeepsNameFlag(cfg, p, c) ==
  IF IsValidTagName(cfg, p)
  THEN IF c = "]" THEN CompleteTag(cfg, p)
       ELSE IF c = "=" THEN [p EXCEPT !.buildingValue = TRUE]
       ELSE [p EXCEPT !.buildingTagName = FALSE,
                      !.buildingValue = FALSE,
                      !.buildingAttributeName = TRUE]
  ELSE RejectTag(p, c)

\* Lines 188-290: a terminator of the tag name.
EndTagName(cfg, p, c) ==
  IF IsValidTagName(cfg, p)
  THEN IF c = "]" THEN CompleteTag(cfg, p)
       ELSE IF c = "=" THEN [p EXCEPT !.buildingTagName = FALSE, !.buildingValue = TRUE]
       ELSE [p EXCEPT !.buildingTagName = FALSE,
                      !.buildingValue = FALSE,
                      !.buildingAttributeName = TRUE]
  ELSE RejectTag(p, c)

\* Lines 172-294: TagName mode.
TagNameMode(cfg, p, c) ==
  IF c = "*" /\ p.currentTagName = <<>> /\ ~p.buildingClosingTag
  THEN ListItemBoundary(p, c)
  ELSE IF c = "/" /\ p.currentTagName = <<>>
  THEN [p EXCEPT !.buildingClosingTag = TRUE]
  ELSE IF c \in {"]", " ", "="}
  THEN EndTagName(cfg, p, c)
  ELSE [p EXCEPT !.currentTagName = @ \o <<c>>]

\* Lines 295-314: TagValue mode.
TagValueMode(p, c) ==
  IF c = "]"
  THEN [p EXCEPT !.buildingValue = FALSE,
                 !.currentStack = Append(@, SetValue(Node(p.currentTagName, EmptyObject),
                                                     p.currentTagValue)),
                 !.buildingTagName = FALSE,
                 !.buildingText = TRUE,
                 !.currentTagName = <<>>,
                 !.currentTagValue = <<>>]
  ELSE IF c = " " /\ ~p.quoted
  THEN [p EXCEPT !.buildingValue = FALSE, !.buildingAttributeName = TRUE]
  ELSE [p EXCEPT !.currentTagValue = @ \o <<c>>]

\* Lines 315-323: AttributeName mode.
AttributeNameMode(p, c) ==
  IF c = "="
  THEN [p EXCEPT !.buildingAttributeName = FALSE]
  ELSE [p EXCEPT !.currentTagAttributeName = @ \o <<c>>]

\* Lines 331-337: the tag made from the name, the attributes and, when it is
\* not empty, the value.
AttributeTag(p, attrs) ==
  LET currentTag == Node(p.currentTagName, attrs)
  IN IF p.currentTagValue # <<>> THEN SetValue(currentTag, p.currentTagValue) ELSE currentTag

\* Lines 324-358: AttributeValue mode.
AttributeValueMode(p, c) ==
  LET attrs == ObjectSet(p.currentTagAttributes, p.currentTagAttributeName,
                         p.currentTagAttributeValue)
  IN IF c = "]"
     THEN [p EXCEPT !.buildingAttributeName = FALSE,
                    !.currentStack = Append(@, AttributeTag(p, attrs)),
                    !.buildingTagName = FALSE,
                    !.buildingText = TRUE,
                    !.currentTagName = <<>>,
                    !.currentTagValue = <<>>,
                    !.currentTagAttributes = EmptyObject,
                    !.currentTagAttributeName = <<>>,
                    !.currentTagAttributeValue = <<>>]
     ELSE IF c = " " /\ ~p.quoted
     THEN [p EXCEPT !.buildingAttributeName = TRUE,
                    !.currentTagAttributes = attrs,
                    !.currentTagAttributeName = <<>>,
                    !.currentTagAttributeValue = <<>>]
     ELSE [p EXCEPT !.currentTagAttributeValue = @ \o <<c>>]

\* An iteration that leaves the character it reads in the input.
TakeCharacter_KeepsCharacter(p) ==
  [p EXCEPT !.quoted = IF Head(p.textLeft) \in {"\"", "'"} THEN ~@ ELSE @]

\* Lines 146-150: take the next character off the input and toggle `quoted`.
TakeCharacter(p) ==
  [p EXCEPT !.textLeft = Tail(@),
            !.quoted = IF Head(p.textLeft) \in {"\"", "'"} THEN ~@ ELSE @]

\* Lines 145-360: one iteration of the main loop.
LoopBody(cfg, p) ==
  LET c == Head(p.textLeft)
      q == TakeCharacter(p)
  IN IF q.buildingText THEN TextMode(q, c)
     ELSE IF q.buildingTagName THEN TagNameMode(cfg, q, c)
     ELSE IF q.buildingValue THEN TagValueMode(q, c)
     ELSE IF q.buildingAttributeName THEN AttributeNameMode(q, c)
     ELSE AttributeValueMode(q, c)

\* Lines 375-390: the text of an opening tag the input ended in.
IncompleteTagText(p) ==
  <<"[">> \o p.currentTagName
    \o (IF p.currentTagValue # <<>> THEN <<"=">> \o p.currentTagValue ELSE <<>>)
    \o AttributesText(p.currentTagAttributes)
    \o (IF p.buildingAttributeName THEN <<" ">> \o p.currentTagAttributeName
        ELSE IF p.currentTagAttributeName # <<>>
        THEN <<" ">> \o p.currentTagAttributeName \o <<"=">> \o p.currentTagAttributeValue
        ELSE <<>>)

\* A flush that makes a Text of the leftover text even when there is none.
FlushAtEnd_KeepsEmptyText(p) ==
  IF p.buildingText
  THEN AddToTop(p.currentStack, TextNode(p.currentText))
  ELSE IF p.buildingClosingTag
  THEN AddToTop(p.currentStack, TextNode(<<"[", "/">> \o p.currentTagName))
  ELSE AddToTop(p.currentStack, TextNode(IncompleteTagText(p)))

\* Lines 362-395: what is left in the buffers becomes a last Text child.
FlushAtEnd(p) ==
  IF p.buildingText
  THEN IF p.currentText # <<>> THEN AddToTop(p.currentStack, TextNode(p.currentText))
       ELSE p.currentStack
  ELSE IF p.buildingClosingTag
  THEN AddToTop(p.currentStack, TextNode(<<"[", "/">> \o p.currentTagName))
  ELSE AddToTop(p.currentStack, TextNode(IncompleteTagText(p)))

RECURSIVE LenientFlatten(_, _)
\* Lines 408-415: the loop that folds every open frame into the one under it,
\* from index i (1-based) down to the frame above the root.
LenientFlatten(stack, i) ==
  IF i < 2
  THEN [threw |-> FALSE, stack |-> stack]
  ELSE LET node == Top(stack)
       IN IF ~HasMakeOpeningTag(node)
          THEN [threw |-> TRUE, stack |-> Pop(stack)]
          ELSE LenientFlatten([Pop(stack) EXCEPT ![i - 1] = addChild(@, TextNode(FlattenText(node)))],
                              i - 1)

\* A variant of UnclosedTags that counts the Root among the unclosed frames.
UnclosedTags_CountsRoot(stack) == UnclosedError(Len(stack), Top(stack).name)

\* The unclosed-tags error of lines 400-406.
UnclosedTags(stack) == UnclosedError(Len(stack) - 1, Top(stack).name)

\* Lines 362-419: the end of the input.
AfterLoop(cfg, p) ==
  LET stack == FlushAtEnd(p)
  IN IF Len(stack) > 1
     THEN IF ~cfg.lenient
          THEN [p EXCEPT !.currentStack = stack, !.outcome = UnclosedTags(stack)]
          ELSE LET r == LenientFlatten(stack, Len(stack))
               IN [p EXCEPT !.currentStack = r.stack,
                            !.outcome = IF r.threw THEN TypeError ELSE Returned]
     ELSE [p EXCEPT !.currentStack = stack, !.outcome = Returned]

RECURSIVE Run(_, _)
\* parse as a function: the locals after the loop has run to its end.
Run(cfg, p) ==
  IF p.outcome.kind # "running" THEN p
  ELSE IF p.textLeft = <<>> THEN AfterLoop(cfg, p)
  ELSE Run(cfg, LoopBody(cfg, p))

\* Parser.parse(text)
parse(cfg, input) == Run(cfg, InitLocals(input))

\* A call that keeps the closing flag of the call before it.
NewCallLocals_KeepsClosingFlag(p, input) ==
  [InitLocals(input) EXCEPT !.buildingClosingTag = p.buildingClosingTag]

\* The locals of a call made after a call that ended with the locals p: every
\* local is declared anew inside parse, p is not read.
NewCallLocals(p, input) == InitLocals(input)

\* -------------------------------------------------------------------- inputs

\* The longest input of the character family and the most pieces of an input
\* of the piece family.
MaxChars == 4
MaxPieces == 3
\* The most items of a list input.
MaxItems == 2
\* The most characters after `[b` in an input of the tag family.
MaxInterior == 4
\* The most attributes of an input of the attribute family.
MaxAttributes == 3
\* The most pieces of an input of the nesting family.
MaxNest == 5
MaxStar == 3
\* The most parse calls made on one Parser.
MaxCalls == 2
\* The most nodes a program holds in variables and the most calls it makes on them.
MaxTrees == 3
MaxOps == 3

S(str) == CASE str = "[b]" -> <<"[", "b", "]">>
            [] str = "[/b]" -> <<"[", "/", "b", "]">>
            [] str = "[B]" -> <<"[", "B", "]">>
            [] str = "[/B]" -> <<"[", "/", "B", "]">>
            [] str = "[i]" -> <<"[", "i", "]">>
            [] str = "[/i]" -> <<"[", "/", "i", "]">>
            [] str = "[s]" -> <<"[", "s", "]">>
            [] str = "[x]" -> <<"[", "x", "]">>
            [] str = "[/x]" -> <<"[", "/", "x", "]">>
            [] str = "[*]" -> <<"[", "*", "]">>
            [] str = "[code]" -> <<"[">> \o S_code \o <<"]">>
            [] str = "[/code]" -> <<"[", "/">> \o S_code \o <<"]">>
            [] str = "[code=1]" -> <<"[">> \o S_code \o <<"=", "1", "]">>
            [] str = "[list]" -> <<"[">> \o S_list \o <<"]">>
            [] str = "[/list]" -> <<"[", "/">> \o S_list \o <<"]">>
            [] str = "[b=r a=1]" -> <<"[", "b", "=", "r", " ", "a", "=", "1", "]">>
            [] str = "Hello world!" -> <<"H", "e", "l", "l", "o", " ", "w", "!">>
            [] str = "Test!" -> <<"T", "e", "s", "t", "!">>
            [] str = "Hello" -> <<"H", "e", "l", "l", "o">>
            [] str = "X" -> <<"X">>
            [] str = "A" -> <<"A">>
            [] str = "B" -> <<"B">>

\* Every string over the alphabet of length at most n.
StringsUpTo(alphabet, n) == UNION {[1..k -> alphabet] : k \in 0..n}

\* The character family: every string over the characters that steer the
\* state machine.
CharAlphabet == {"[", "]", "/", "=", " ", "*", "'", "b"}
CharInputs == StringsUpTo(CharAlphabet, MaxChars)

\* The piece family: every concatenation of whole tags and text.
Pieces == {S("[b]"), S("[/b]"), S("[i]"), S("[/i]"), S("[x]"), S("[/x]"), S("[*]"),
           S("[code]"), S("[/code]"), S("[list]"), S("[/list]"), S("[code=1]"), S("X")}
PieceInputs == {Concat(ps) : ps \in StringsUpTo(Pieces, MaxPieces)}

\* The case family: tags that differ in case only.
CasePieces == {S("[b]"), S("[/b]"), S("[B]"), S("[/B]"), S("X")}
CaseInputs == {Concat(ps) : ps \in StringsUpTo(CasePieces, MaxPieces)}

\* The list family: [list], then items [*]t, then [/list].
ItemTexts == {S("A"), S("B"), <<"'", "]">>}
ItemSeqs == UNION {[1..k -> ItemTexts] : k \in 1..MaxItems}
ListInput(items) ==
  S("[list]") \o Concat([i \in 1..Len(items) |-> S("[*]") \o items[i]]) \o S("[/list]")
ListInputs == {ListInput(items) : items \in ItemSeqs}

\* The closed-item family: the list family with an explicit [/*] after the
\* items chosen by closed.
ClosedListInput(items, closed) ==
  S("[list]")
    \o Concat([i \in 1..Len(items) |->
                 S("[*]") \o items[i] \o (IF closed[i] THEN <<"[", "/", "*", "]">> ELSE <<>>)])
    \o S("[/list]")
ClosedListInputs ==
  UNION {{ClosedListInput(items, closed) : closed \in [1..Len(items) -> BOOLEAN]} :
           items \in ItemSeqs}

\* The star family: list item tags, closed or not, around names that begin
\* with `*` and are not supported.
StarPieces == {S("[list]"), S("[/list]"), S("[*]"), <<"[", "/", "*", "]">>,
               <<"[", "*", "x", "]">>, S("A")}
StarInputs == {Concat(ps) : ps \in StringsUpTo(StarPieces, MaxStar)}

\* The tag family: an opening tag `[b` followed by every run of the characters
\* that steer the value and attribute modes, alone or after an apostrophe in
\* the text before it.
InteriorAlphabet == {"=", " ", "'", "\"", "a", "]"}
TagInputs ==
  {pre \o <<"[", "b">> \o s :
     pre \in {<<>>, <<"'">>}, s \in StringsUpTo(InteriorAlphabet, MaxInterior)}

\* The closed tag family: the opening tags of the tag family, each followed
\* by [/b].
ClosedTagInputs ==
  {<<"[", "b">> \o s \o S("[/b]") : s \in StringsUpTo(InteriorAlphabet, MaxInterior)}

\* The attribute family: [b k1=v1 ... kn=vn][/b], with keys that are words,
\* keys that look like numbers and keys that repeat.
AttributeKeys == {<<"a">>, <<"c">>, <<"1">>, <<"2">>}
AttributeValues == {<<"x">>, <<"y">>}
Pairs == [key : AttributeKeys, value : AttributeValues]
PairSeqs == UNION {[1..k -> Pairs] : k \in 1..MaxAttributes}
AttributeInput(pairs) ==
  <<"[", "b">>
    \o Concat([i \in 1..Len(pairs) |-> <<" ">> \o pairs[i].key \o <<"=">> \o pairs[i].value])
    \o <<"]">> \o S("[/b]")
AttributeInputs == {AttributeInput(pairs) : pairs \in PairSeqs}

\* The value family: [b=v k1=v1 ... kn=vn][/b], n from 0.
ValueAttributeInput(v, pairs) ==
  <<"[", "b", "=">> \o v
    \o Concat([i \in 1..Len(pairs) |-> <<" ">> \o pairs[i].key \o <<"=">> \o pairs[i].value])
    \o <<"]">> \o S("[/b]")
ValueAttributeInputs == {ValueAttributeInput(<<"v">>, pairs) : pairs \in PairSeqs \cup {<<>>}}

\* The nesting family: opening and closing tags of two names and text, well
\* nested or not, deep enough for a pair inside a pair.
NestPieces == {S("[b]"), S("[/b]"), S("[i]"), S("[/i]"), S("X")}
NestInputs == {Concat(ps) : ps \in StringsUpTo(NestPieces, MaxNest)}

\* The sentinel family: tags that carry the name of the Root.
SentinelPieces ==
  {<<"[">> \o S_RootNode \o <<"]">>, <<"[", "/">> \o S_RootNode \o <<"]">>,
   S("[b]"), S("[/b]"), S("X")}
SentinelInputs == {Concat(ps) : ps \in StringsUpTo(SentinelPieces, MaxPieces)}

\* The inputs of the repository's tests and of its documentation.
Samples ==
  {S("[b]") \o S("Hello"),
   S("[b]") \o S("X") \o S("[/i]"),
   S("[b]") \o S("[i]") \o S("[s]") \o S("Hello world!") \o S("[/i]") \o S("[/b]"),
   S("[b]") \o S("Test!") \o S("[/b]") \o S("[b]") \o S("[i]") \o S("[s]")
     \o S("Hello world!") \o S("[b]") \o S("Test!") \o S("[/b]"),
   S("[b]") \o S("[i]") \o S("Hello world!") \o S("[/i]") \o S("[/b]"),
   S("[code]") \o S("[b]") \o S("X") \o S("[/b]") \o S("[/code]"),
   S("[b=r a=1]") \o S("X") \o S("[/b]")}

\* The allow-lists of the tests: the custom parsers and (a part of) the default one.
Names_b == {<<"b">>}
Names_bis == {<<"b">>, <<"i">>, <<"s">>}
Names_bstar == {<<"b">>, S_star}
Names_bB == {<<"b">>, <<"B">>}
Names_B == {<<"B">>}
Names_bRoot == {<<"b">>, S_RootNode}
Names_default == {<<"b">>, <<"i">>, <<"s">>, S_code, S_list, S_star}

\* ------------------------------------------------------------- state machine

VARIABLES
  text,                      \* the argument of parse
  supportedTagNames,         \* Parser.supportedTagNames
  caseSensitive,             \* Parser.caseSensitive
  lenient,                   \* Parser.lenient
  textLeft,
  currentStack,
  currentText,
  buildingText,
  buildingTagName,
  buildingValue,
  buildingAttributeName,
  buildingClosingTag,
  buildingCode,
  quoted,
  currentTagName,
  currentTagValue,
  currentTagAttributes,
  currentTagAttributeName,
  currentTagAttributeValue,
  outcome,                   \* running, returned or thrown
  calls,                     \* the number of parse calls made on the parser
  trees,                     \* the nodes a program holds in variables
  objects,                   \* the attributes objects created so far
  last,                      \* the last call the program made on a node
  clones,                    \* <<n, c>>: trees[c] was made by trees[n].clone()
  added                      \* <<p, x>>: trees[x] was added under trees[p]

config == <<text, supportedTagNames, caseSensitive, lenient>>
program == <<trees, objects, last, clones, added>>
locals == <<textLeft, currentStack, currentText, buildingText, buildingTagName, buildingValue,
            buildingAttributeName, buildingClosingTag, buildingCode, quoted, currentTagName,
            currentTagValue, currentTagAttributes, currentTagAttributeName,
            currentTagAttributeValue, outcome>>
vars == <<config, locals, calls, program>>

\* The parser object the call runs on.
this ==
  [supportedTagNames |-> supportedTagNames, caseSensitive |-> caseSensitive,
   lenient |-> lenient]

\* The locals of the running call as one record.
Locals ==
  [textLeft |-> textLeft,
   currentStack |-> currentStack,
   currentText |-> currentText,
   buildingText |-> buildingText,
   buildingTagName |-> buildingTagName,
   buildingValue |-> buildingValue,
   buildingAttributeName |-> buildingAttributeName,
   buildingClosingTag |-> buildingClosingTag,
   buildingCode |-> buildingCode,
   quoted |-> quoted,
   currentTagName |-> currentTagName,
   currentTagValue |-> currentTagValue,
   currentTagAttributes |-> currentTagAttributes,
   currentTagAttributeName |-> currentTagAttributeName,
   currentTagAttributeValue |-> currentTagAttributeValue,
   outcome |-> outcome]

\* The locals take the values of the record p.
Install(p) ==
  \E q \in {p} :
    /\ textLeft' = q.textLeft
    /\ currentStack' = q.currentStack
    /\ currentText' = q.currentText
    /\ buildingText' = q.buildingText
    /\ buildingTagName' = q.buildingTagName
    /\ buildingValue' = q.buildingValue
    /\ buildingAttributeName' = q.buildingAttributeName
    /\ buildingClosingTag' = q.buildingClosingTag
    /\ buildingCode' = q.buildingCode
    /\ quoted' = q.quoted
    /\ currentTagName' = q.currentTagName
    /\ currentTagValue' = q.currentTagValue
    /\ currentTagAttributes' = q.currentTagAttributes
    /\ currentTagAttributeName' = q.currentTagAttributeName
    /\ currentTagAttributeValue' = q.currentTagAttributeValue
    /\ outcome' = q.outcome

\* new Parser(names, cs, len).parse(input), before the loop.
Start(input, names, cs, len) ==
  LET parser == Parser(names, cs, len)
      p == InitLocals(input)
  IN /\ text = input
     /\ supportedTagNames = parser.supportedTagNames
     /\ caseSensitive = parser.caseSensitive
     /\ lenient = parser.lenient
     /\ textLeft = p.textLeft
     /\ currentStack = p.currentStack
     /\ currentText = p.currentText
     /\ buildingText = p.buildingText
     /\ buildingTagName = p.buildingTagName
     /\ buildingValue = p.buildingValue
     /\ buildingAttributeName = p.buildingAttributeName
     /\ buildingClosingTag = p.buildingClosingTag
     /\ buildingCode = p.buildingCode
     /\ quoted = p.quoted
     /\ currentTagName = p.currentTagName
     /\ currentTagValue = p.currentTagValue
     /\ currentTagAttributes = p.currentTagAttributes
     /\ currentTagAttributeName = p.currentTagAttributeName
     /\ currentTagAttributeValue = p.currentTagAttributeValue
     /\ outcome = p.outcome

\* No call has been made on a node yet.
NoCall == [op |-> "none", ref |-> <<>>, arg |-> 0, count |-> 0]

\* The program holds no node.
NoProgram ==
  /\ trees = <<>>
  /\ objects = <<>>
  /\ last = NoCall
  /\ clones = {}
  /\ added = {}

\* A strict or a lenient parser is given an input of one of the families.
Init ==
  /\ \E len \in BOOLEAN :
       \/ \E t \in CaseInputs, n \in {Names_b, Names_bB, Names_B}, cs \in BOOLEAN :
            Start(t, n, cs, len)
       \/ \E t \in CharInputs : Start(t, Names_bstar, FALSE, len)
       \/ \E t \in PieceInputs \cup ListInputs : Start(t, Names_default, FALSE, len)
       \/ \E t \in Samples, n \in {Names_b, Names_bis, Names_default} : Start(t, n, FALSE, len)
       \/ \E t \in TagInputs \cup ClosedTagInputs \cup AttributeInputs \cup ValueAttributeInputs :
            Start(t, Names_b, FALSE, len)
       \/ \E t \in SentinelInputs : Start(t, Names_bRoot, FALSE, len)
       \/ \E t \in NestInputs : Start(t, Names_bis, FALSE, len)
       \/ \E t \in ClosedListInputs \cup StarInputs : Start(t, Names_default, FALSE, len)
  /\ calls = 1
  /\ NoProgram

\* `while (textLeft)` holds and no exception has been thrown.
InLoop == outcome.kind = "running" /\ textLeft # <<>>

\* One iteration of the loop in Text mode.
TextChar ==
  /\ InLoop /\ buildingText
  /\ Install(TextMode(TakeCharacter(Locals), Head(textLeft)))
  /\ UNCHANGED <<config, calls, program>>

\* One iteration of the loop in TagName mode.
TagNameChar ==
  /\ InLoop /\ ~buildingText /\ buildingTagName
  /\ Install(TagNameMode(this, TakeCharacter(Locals), Head(textLeft)))
  /\ UNCHANGED <<config, calls, program>>

\* One iteration of the loop in TagValue mode.
TagValueChar ==
  /\ InLoop /\ ~buildingText /\ ~buildingTagName /\ buildingValue
  /\ Install(TagValueMode(TakeCharacter(Locals), Head(textLeft)))
  /\ UNCHANGED <<config, calls, program>>

\* One iteration of the loop in AttributeName mode.
AttributeNameChar ==
  /\ InLoop /\ ~buildingText /\ ~buildingTagName /\ ~buildingValue /\ buildingAttributeName
  /\ Install(AttributeNameMode(TakeCharacter(Locals), Head(textLeft)))
  /\ UNCHANGED <<config, calls, program>>

\* One iteration of the loop in AttributeValue mode.
AttributeValueChar ==
  /\ InLoop /\ ~buildingText /\ ~buildingTagName /\ ~buildingValue /\ ~buildingAttributeName
  /\ Install(AttributeValueMode(TakeCharacter(Locals), Head(textLeft)))
  /\ UNCHANGED <<config, calls, program>>

\* The loop has ended: flush, then fail, flatten or return.
EndOfInput ==
  /\ outcome.kind = "running" /\ textLeft = <<>>
  /\ Install(AfterLoop(this, Locals))
  /\ UNCHANGED <<config, calls, program>>

Next ==
  \/ TextChar
  \/ TagNameChar
  \/ TagValueChar
  \/ AttributeNameChar
  \/ AttributeValueChar
  \/ EndOfInput

Spec == Init /\ [][Next]_vars

\* ------------------------------------------- several calls on one Parser

\* The inputs of the calls: tags left open, left half-read, rejected,
\* mismatched, and a quote in the text.
CallInputs ==
  {S("[b]") \o S("X") \o S("[/b]"),
   S("[b]"),
   S("[/b]"),
   S("[/x]") \o S("[b]"),
   S("[code]") \o S("[b]"),
   <<"'">> \o S("[b=r a=1]"),
   <<"[", "b", "=", "r", " ", "a", "=", "1">>,
   <<"[", "/", "b">>}

InitCalls ==
  /\ \E len \in BOOLEAN, t \in CallInputs : Start(t, Names_default, FALSE, len)
  /\ calls = 1
  /\ NoProgram

\* parse is called again on the parser, after a call that returned or threw.
ParseAgain ==
  /\ outcome.kind # "running"
  /\ calls < MaxCalls
  /\ \E input \in CallInputs :
       /\ text' = input
       /\ Install(NewCallLocals(Locals, input))
  /\ calls' = calls + 1
  /\ UNCHANGED <<supportedTagNames, caseSensitive, lenient, program>>

NextCalls ==
  \/ Next
  \/ ParseAgain

SpecCalls == InitCalls /\ [][NextCalls]_vars

\* ------------------------------------------------------ a call runs to its end

\* The inputs of the calls that are followed to their end: short runs of
\* opening and closing tags and text, the lists, the inputs of the tests, and a closing
\* tag over a frame that does not match before an end of input with frames
\* left open.
LiveInputs ==
  {Concat(ps) : ps \in StringsUpTo(NestPieces, MaxPieces - 1)}
    \cup Samples \cup ListInputs \cup CallInputs
    \cup {S("[b]") \o S("[i]") \o S("[/b]") \o S("[i]") \o S("X")}

InitLive ==
  /\ \E len \in BOOLEAN, t \in LiveInputs : Start(t, Names_default, FALSE, len)
  /\ calls = 1
  /\ NoProgram

\* parse is synchronous and single-threaded: a call that has started runs on,
\* iteration after iteration, until it returns or throws.
SpecLive == InitLive /\ [][Next]_vars /\ WF_vars(Next)

\* ------------------------------------------------ a program that uses nodes

\* The nodes the constructors make: containers without children, a Text.
Constructed ==
  {RootNode(<<>>), ListItemNode(<<>>), Node(<<"b">>, EmptyObject), TextNode(<<"X">>)}
InitialTrees == {<<a, b>> : a, b \in Constructed}

\* A reference <<i, path>> is the node trees[i] or one of its children.
Paths(node) == {<<>>} \cup {<<k>> : k \in 1..Len(node.children)}
Refs == UNION {{<<i, path>> : path \in Paths(trees[i])} : i \in 1..Len(trees)}
NodeAt(ts, ref) ==
  IF ref[2] = <<>> THEN ts[ref[1]] ELSE ts[ref[1]].children[ref[2][1]]
Assign(ts, ref, node) ==
  IF ref[2] = <<>> THEN [ts EXCEPT ![ref[1]] = node]
  ELSE [ts EXCEPT ![ref[1]].children[ref[2][1]] = node]

CanCall == last.count < MaxOps
Call(op, ref, arg) == [op |-> op, ref |-> ref, arg |-> arg, count |-> last.count + 1]

\* The program holds two nodes it has constructed and a lenient parser.
InitNodes ==
  /\ Start(<<>>, Names_default, FALSE, TRUE)
  /\ calls = 1
  /\ \E ts \in InitialTrees :
       LET made == AllocateAll(ts, <<>>)
       IN trees = made.nodes /\ objects = made.heap
  /\ last = NoCall
  /\ clones = {}
  /\ added = {}

\* c = n.clone()
CloneCall ==
  /\ CanCall /\ Len(trees) < MaxTrees
  /\ \E n \in 1..Len(trees) :
       /\ trees' = Append(trees, clone(trees[n]))
       /\ clones' = clones \cup {<<n, Len(trees) + 1>>}
       /\ last' = Call("clone", <<n, <<>>>>, 0)
  /\ UNCHANGED <<config, locals, calls, objects, added>>

\* p.addChild(x), p a container the program reaches, x a node it holds.
AddChildCall ==
  /\ CanCall
  /\ \E p \in Refs, x \in 1..Len(trees) :
       /\ p[1] # x
       /\ NodeAt(trees, p).kind \in {"Root", "Tag", "ListItem"}
       /\ trees' = Assign(trees, p, addChild(NodeAt(trees, p), trees[x]))
       /\ added' = added \cup {<<p[1], x>>}
       /\ last' = Call("addChild", p, x)
  /\ UNCHANGED <<config, locals, calls, objects, clones>>

\* n.setValue(v), n.value = v
SetValueCall ==
  /\ CanCall
  /\ \E n \in Refs :
       /\ NodeAt(trees, n).kind = "Tag"
       /\ trees' = Assign(trees, n, SetValue(NodeAt(trees, n), <<"r">>))
       /\ last' = Call("setValue", n, 0)
  /\ UNCHANGED <<config, locals, calls, objects, clones, added>>

\* n.setAttribute(k, v), n.attributes[k] = v
SetAttributeCall ==
  /\ CanCall
  /\ \E n \in Refs :
       /\ NodeAt(trees, n).kind = "Tag"
       /\ objects' = [objects EXCEPT ![NodeAt(trees, n).attributes] =
                                       ObjectSet(@, <<"a">>, <<"x">>)]
       /\ last' = Call("setAttribute", n, 0)
  /\ UNCHANGED <<config, locals, calls, trees, clones, added>>

\* t.text = s
SetTextCall ==
  /\ CanCall
  /\ \E t \in Refs :
       /\ NodeAt(trees, t).kind = "Text"
       /\ trees' = Assign(trees, t, [NodeAt(trees, t) EXCEPT !.text = <<"Y">>])
       /\ last' = Call("setText", t, 0)
  /\ UNCHANGED <<config, locals, calls, objects, clones, added>>

\* r = parser.parse(input): the program holds the tree when the call returns.
ParseCall ==
  /\ CanCall /\ Len(trees) < MaxTrees
  /\ \E input \in Samples :
       LET r == parse(this, input)
           made == Allocate(r.currentStack[1], objects)
       IN /\ r.outcome.kind = "returned"
          /\ trees' = Append(trees, made.node)
          /\ objects' = made.heap
          /\ last' = Call("parse", <<Len(trees) + 1, <<>>>>, 0)
  /\ UNCHANGED <<config, locals, calls, clones, added>>

NextNodes ==
  \/ CloneCall
  \/ AddChildCall
  \/ SetValueCall
  \/ SetAttributeCall
  \/ SetTextCall
  \/ ParseCall

SpecNodes == InitNodes /\ [][NextNodes]_vars

\* What the program reads in the node trees[i].
View(i) == Resolve(trees[i], objects)

\* The last call changed a node through the node trees[i] or a child of it.
ChangedThrough(i) ==
  /\ last.op \in {"addChild", "setValue", "setAttribute", "setText"}
  /\ last.ref[1] = i

\* The characters of the input the loop has taken so far.
consumed == SubSeq(text, 1, Len(text) - Len(textLeft))

\* `return rootNode`: the root is the bottom of the stack of a call that returned.
rootNode == currentStack[1]

\* -------------------------------------------------------- claims: vocabulary

\* The loop is about to read the character c in TagName mode.
ReadsInTagName(c) ==
  /\ InLoop /\ ~buildingText /\ buildingTagName
  /\ Head(textLeft) = c

\* The bracket sequence being read is `[/` followed by the tag name so far.
BeganWithSlash ==
  LET n == Len(consumed)
      k == Len(currentTagName)
  IN /\ n >= k + 2
     /\ SubSeq(consumed, n - k - 1, n) = <<"[", "/">> \o currentTagName

\* The loop is about to read the `]` that completes a closing tag [/c] whose
\* name passes validation.
CompletesClosingTag ==
  /\ ReadsInTagName("]")
  /\ BeganWithSlash
  /\ IsValidTagName(this, Locals)

\* The stack a closing tag [/c] finds, with a trailing list item folded into
\* its parent when c is list.
FoldedStack ==
  IF /\ toLowerCase(currentTagName) = S_list
     /\ Top(currentStack).name = S_star
     /\ Len(currentStack) >= 2
  THEN [Pop(currentStack) EXCEPT ![Len(currentStack) - 1] = addChild(@, Top(currentStack))]
  ELSE currentStack

SameName(a, b) ==
  IF caseSensitive THEN a = b ELSE toLowerCase(a) = toLowerCase(b)

\* The indices of the frames of the folded stack that a closing tag matches.
MatchingFrames == {i \in 1..Len(FoldedStack) : SameName(FoldedStack[i].name, currentTagName)}

\* The text a flattened frame becomes: its opening tag and its children.
FrameText(node) ==
  (IF node.kind = "ListItem" THEN <<"[", "*", "]">> ELSE makeOpeningTag(node))
    \o Concat([i \in 1..Len(node.children) |-> toString(node.children[i])])

RECURSIVE FlattenAbove(_, _)
\* The stack with every frame above index m turned, innermost first, into a
\* Text child of the frame beneath it.
FlattenAbove(stack, m) ==
  IF Len(stack) <= m THEN stack
  ELSE FlattenAbove([Pop(stack) EXCEPT ![Len(stack) - 1] = addChild(@, TextNode(FrameText(Top(stack))))],
                    m)

RECURSIVE NodesOf(_)
\* A node and all its descendants.
NodesOf(node) ==
  {node} \cup UNION {NodesOf(node.children[i]) : i \in 1..Len(node.children)}

\* ------------------------------------------------------------------- claims

\* C1: round-trip law: whenever parse returns a Root (strict or lenient, any
\* allow-list), the Root's toString() equals the input.
C1_RoundTrip == outcome.kind = "returned" => toString(rootNode) = text

\* C2: in strict mode, when the input ends with frames above Root on the
\* stack, parse fails with the unclosed-tags error: its count is the number of
\* frames above Root and its name is the name of the top frame.
C2_UnclosedTags ==
  [][(/\ outcome.kind = "running" /\ textLeft = <<>>
      /\ ~lenient
      /\ Len(currentStack) > 1)
     => /\ outcome'.kind = "UnclosedError"
        /\ outcome'.count = Len(currentStack) - 1
        /\ outcome'.name = currentStack[Len(currentStack)].name]_vars

\* C2 witness: `[b]Hello` has failed with count 1, naming b.
C2_Witness ==
  /\ text = S("[b]") \o S("Hello")
  /\ ~lenient
  /\ outcome.kind = "UnclosedError" /\ outcome.count = 1 /\ outcome.name = <<"b">>

C4_LenientNeverRaises == lenient => outcome.kind \in {"running", "returned"}

\* C5: in lenient mode, a valid closing tag that matches no frame of the stack
\* is kept as literal text, the stack is left as it was and parsing goes on.
C5_LenientNoMatchIsText ==
  [][(/\ CompletesClosingTag
      /\ lenient
      /\ \A i \in 1..Len(currentStack) : ~SameName(currentStack[i].name, currentTagName))
     => /\ outcome'.kind = "running"
        /\ currentStack' = currentStack
        /\ buildingText'
        /\ currentText' = <<"[", "/">> \o currentTagName \o <<"]">>]_vars

\* C6: in lenient mode, when a valid closing tag does not match the top frame
\* but matches a lower one, every frame above the nearest match becomes a Text
\* child of the frame beneath it, innermost first, and the matching frame is
\* then closed as a child of its parent.
C6_LenientFlattenToMatch ==
  [][(/\ CompletesClosingTag
      /\ lenient
      /\ ~SameName(Top(FoldedStack).name, currentTagName)
      /\ \E i \in MatchingFrames : i > 1)
     => LET m == CHOOSE i \in MatchingFrames : \A j \in MatchingFrames : j <= i
            flat == FlattenAbove(FoldedStack, m)
        IN /\ outcome'.kind = "running"
           /\ currentStack' = AddToTop(Pop(flat), Top(flat))]_vars

\* C7: in lenient mode, when the input ends with frames above Root, every such
\* frame (Tag or ListItem) becomes a Text child of the frame beneath it,
\* innermost first, and parse returns Root.
C7_LenientFlattenAtEnd ==
  [][(/\ outcome.kind = "running" /\ textLeft = <<>>
      /\ lenient
      /\ Len(currentStack) > 1)
     => /\ outcome'.kind = "returned"
        /\ currentStack' = FlattenAbove(FlushAtEnd(Locals), 1)]_vars

\* C8: unsupported tag passthrough: every Tag or ListItem of a returned tree
\* has a supported name, and a bracket sequence whose name is not supported
\* creates no node and goes unchanged, as the input has it, into the text.
C8_UnsupportedPassthrough ==
  /\ [](outcome.kind = "returned"
        => \A n \in NodesOf(rootNode) :
             n.kind \in {"Tag", "ListItem"}
             => getNameRespectingSensitivity(this, n.name) \in supportedTagNames)
  /\ [][(/\ \E c \in {"]", " ", "="} : ReadsInTagName(c)
         /\ getNameRespectingSensitivity(this, currentTagName) \notin supportedTagNames)
        => /\ currentStack' = currentStack
           /\ buildingText'
           /\ Len(currentText') >= Len(currentTagName) + 2
           /\ currentText' = SubSeq(consumed', Len(consumed') - Len(currentText') + 1,
                                    Len(consumed'))]_vars

\* A Tag named code is open on the stack.
CodeOpen ==
  \E i \in 1..Len(currentStack) :
    currentStack[i].kind = "Tag" /\ toLowerCase(currentStack[i].name) = S_code

\* C9: code opacity: while a code tag is open on the stack, the only bracket
\* sequence that pushes or pops a frame is the [/code] that closes it.
C9_CodeOpacity ==
  [][(InLoop /\ CodeOpen /\ Len(currentStack') # Len(currentStack))
     => /\ CompletesClosingTag
        /\ toLowerCase(currentTagName) = S_code
        /\ toLowerCase(Top(currentStack).name) = S_code
        /\ Len(currentStack') = Len(currentStack) - 1]_vars

\* The tree of a list of items: one Tag list of ListItems of one Text each.
ListTree(items) ==
  RootNode(<<[Node(S_list, EmptyObject) EXCEPT
                !.children = [i \in 1..Len(items) |-> ListItemNode(<<TextNode(items[i])>>)]]>>)

\* C10: list auto-close: in strict mode, with list and * supported, the input
\* [list][*]t1...[*]tn[/list] (n >= 1, ti non-empty text without `[`) parses
\* without error into one Tag list of n ListItems, the i-th holding the one
\* Text ti.
C10_ListAutoClose ==
  (outcome.kind # "running" /\ ~lenient /\ {S_list, S_star} \subseteq supportedTagNames)
  => \A items \in ItemSeqs :
       text = ListInput(items) => outcome.kind = "returned" /\ rootNode = ListTree(items)

\* C10 witness: a strict parse of a list of two items has returned.
C10_Witness ==
  /\ text = ListInput(<<S("A"), <<"'", "]">>>>)
  /\ ~lenient
  /\ outcome.kind = "returned"
  /\ Len(rootNode.children[1].children) = 2

\* No two neighbours among the children of the node are Text nodes.
NoAdjacentText(node) ==
  \A k \in 1..(Len(node.children) - 1) :
    ~(node.children[k].kind = "Text" /\ node.children[k + 1].kind = "Text")

\* C11: text-node merging: p.addChild(x) with x a Text and the last child of
\* the container p a Text adds no child and appends x's text to that last
\* child; and no container of a tree built by addChild calls on containers
\* that began empty, or returned by parse, has two adjacent Text children.
C11_TextMerging ==
  /\ [](\A i \in 1..Len(trees) : \A n \in NodesOf(trees[i]) : NoAdjacentText(n))
  /\ [][(last' # last /\ last'.op = "addChild")
        => LET p == NodeAt(trees, last'.ref)
               x == trees[last'.arg]
               q == NodeAt(trees', last'.ref)
               n == Len(p.children)
           IN (x.kind = "Text" /\ n > 0 /\ p.children[n].kind = "Text")
              => /\ Len(q.children) = n
                 /\ q.children[n].text = p.children[n].text \o x.text
                 /\ SubSeq(q.children, 1, n - 1) = SubSeq(p.children, 1, n - 1)]_vars

\* C11 witness: a Text was added to a container whose last child was a Text,
\* and the container holds the one Text XX.
C11_Witness ==
  /\ last.op = "addChild"
  /\ trees[last.arg].kind = "Text"
  /\ NodeAt(trees, last.ref).children = <<TextNode(<<"X", "X">>)>>

\* The loop is about to read a character in TagValue / AttributeValue mode.
InValueMode == InLoop /\ ~buildingText /\ ~buildingTagName /\ buildingValue
InAttributeValueMode ==
  InLoop /\ ~buildingText /\ ~buildingTagName /\ ~buildingValue /\ ~buildingAttributeName

Quotes == {"\"", "'"}

RECURSIVE QuoteOpenAfter(_, _)
\* The quote character that is open after the characters s, "" when none is:
\* a quote opens, the next quote of the same kind closes it.
QuoteOpenAfter(s, q) ==
  IF s = <<>> THEN q
  ELSE QuoteOpenAfter(Tail(s),
                      IF q = "" THEN (IF Head(s) \in Quotes THEN Head(s) ELSE "")
                      ELSE IF Head(s) = q THEN "" ELSE q)

\* The value read so far ends between an opening quote and its closing quote.
InsideQuotes(value) == QuoteOpenAfter(value, "") # ""

\* C12: quotes are preserved and protect spaces: a quote read while a tag
\* value or an attribute value is accumulated is appended to that value, and a
\* space read between an opening quote of that value and its closing quote is
\* appended too and does not end the value.
C12_QuotesProtectSpaces ==
  [][LET c == Head(textLeft)
     IN /\ (InValueMode /\ (c \in Quotes \/ (c = " " /\ InsideQuotes(currentTagValue))))
           => /\ currentTagValue' = currentTagValue \o <<c>>
              /\ buildingValue'
        /\ (InAttributeValueMode
            /\ (c \in Quotes \/ (c = " " /\ InsideQuotes(currentTagAttributeValue))))
           => /\ currentTagAttributeValue' = currentTagAttributeValue \o <<c>>
              /\ ~buildingAttributeName' /\ ~buildingText']_vars

\* C13: attribute order: for an opening tag with the attributes k1=v1 ...
\* kn=vn, whatever the keys (words, numbers, repeats), the Tag's attributes
\* hold the pairs in the order written and makeOpeningTag writes ` ki=vi` in
\* that order.
C13_AttributeOrder ==
  outcome.kind = "returned"
  => \A pairs \in PairSeqs :
       text = AttributeInput(pairs)
       => /\ rootNode.children[1].attributes = pairs
          /\ makeOpeningTag(rootNode.children[1]) \o S("[/b]") = text

\* C14: idempotent re-serialization: when parse returns a tree for the input
\* I, parsing that tree's toString() with the same parser returns a tree too,
\* and that second tree's toString() is again I.
C14_Reserialization ==
  outcome.kind = "returned"
  => LET again == parse(this, toString(rootNode))
     IN /\ again.outcome.kind = "returned"
        /\ toString(again.currentStack[1]) = text

\* C15: clone() returns an independent deep copy: after c = n.clone(), a
\* change made through c or a descendant of c (addChild, text merging,
\* setValue, setAttribute, a write of attributes[k]) leaves n and all its
\* descendants as they were, and a change made through n leaves c as it was.
C15_CloneIndependent ==
  [][\A pair \in clones :
       LET n == pair[1]
           c == pair[2]
       IN last' # last
          => /\ ChangedThrough(c)' => View(n)' = View(n)
             /\ ChangedThrough(n)' => View(c)' = View(c)]_vars

\* C16: addChild stores a copy: after p.addChild(x), a change made to x (a
\* child added, its text, value or attributes changed) leaves p's tree, and so
\* p.toString(), as it was; and when x was added to two containers, a change
\* made through one of them leaves the other as it was.
C16_AddChildCopies ==
  [][/\ \A pair \in added :
          (last' # last /\ ChangedThrough(pair[2])')
          => /\ View(pair[1])' = View(pair[1])
             /\ toString(View(pair[1]))' = toString(View(pair[1]))
     /\ \A a, b \in added :
          (a[2] = b[2] /\ a[1] # b[1] /\ last' # last /\ ChangedThrough(a[1])')
          => View(b[1])' = View(b[1])]_vars

\* C17: a Parser carries no state from one parse call to the next: no step of
\* a call changes supportedTagNames, caseSensitive or lenient, and a call that
\* has ended, whatever calls were made before it on the instance, has ended
\* as a first call on the same input ends: the same error, or the same tree.
C17_NoCarriedState ==
  /\ [](outcome.kind # "running"
        => LET first == parse(this, text)
           IN /\ outcome = first.outcome
              /\ outcome.kind = "returned" => rootNode = first.currentStack[1])
  /\ [][/\ supportedTagNames' = supportedTagNames
        /\ caseSensitive' = caseSensitive
        /\ lenient' = lenient]_vars

\* C17 witness: a second call on the instance has returned the tree of [b]X[/b].
C17_Witness ==
  /\ calls = 2
  /\ text = S("[b]") \o S("X") \o S("[/b]")
  /\ outcome.kind = "returned"
  /\ toString(rootNode) = text

\* C18: in strict mode, for every input and every allow-list, a parse call
\* that has ended has returned a complete Root tree, or failed with the
\* mismatched-closing-tag error, or failed with the unclosed-tags error;
\* it fails in no other way.
C18_StrictOutcomes ==
  (~lenient /\ outcome.kind # "running")
  => \/ outcome.kind = "returned" /\ Len(currentStack) = 1 /\ rootNode.kind = "Root"
     \/ outcome.kind = "MismatchError"
     \/ outcome.kind = "UnclosedError"

\* The tag name just read equals a configured name under the case rule.
NameConfigured ==
  \E n \in supportedTagNames :
    IF caseSensitive THEN currentTagName = n
    ELSE toLowerCase(currentTagName) = toLowerCase(n)

\* The step does not accept the tag name: it writes the bracket sequence back
\* into the text and leaves the stack alone.
NameRejected ==
  /\ outcome'.kind = "running"
  /\ buildingText'
  /\ currentStack' = currentStack
  /\ currentText' # <<>>

C20_PlainText ==
  (outcome.kind # "running" /\ \A i \in 1..Len(text) : text[i] # "[")
  => /\ outcome.kind = "returned"
     /\ Len(currentStack) = 1
     /\ rootNode = RootNode(IF text = <<>> THEN <<>> ELSE <<TextNode(text)>>)

\* C20 witness: a parse of the bracket-free input `b' ]` has returned its one
\* Text.
C20_Witness ==
  /\ text = <<"b", "'", " ", "]">>
  /\ outcome.kind = "returned"
  /\ rootNode.children = <<TextNode(text)>>

\* The least index of the character c in s, 0 when s does not hold it.
IndexOf(s, c) ==
  IF \E i \in 1..Len(s) : s[i] = c
  THEN CHOOSE i \in 1..Len(s) : s[i] = c /\ \A j \in 1..(i - 1) : s[j] # c
  ELSE 0

StartsWith(s, prefix) ==
  Len(s) >= Len(prefix) /\ SubSeq(s, 1, Len(prefix)) = prefix

\* A supported plain tag name: not code, not a list item.
PlainName(name) ==
  /\ getNameRespectingSensitivity(this, name) \in supportedTagNames
  /\ toLowerCase(name) \notin {S_code, S_star}

RECURSIVE Reading(_)
\* The recursive reading of the brackets of s: the items read up to the end
\* of s or to a closing tag, the rest of s from there, and whether every
\* bracket sequence read was a pair [t]...[/t] of a plain tag.  A run of text
\* is one Text; a pair is one Tag holding the reading of its body.
Reading(s) ==
  IF s = <<>> \/ StartsWith(s, <<"[", "/">>)
  THEN [ok |-> TRUE, items |-> <<>>, rest |-> s]
  ELSE IF Head(s) # "["
  THEN LET k == IndexOf(s, "[")
           n == IF k = 0 THEN Len(s) ELSE k - 1
           more == Reading(SubSeq(s, n + 1, Len(s)))
       IN [ok |-> more.ok, items |-> <<TextNode(SubSeq(s, 1, n))>> \o more.items,
           rest |-> more.rest]
  ELSE LET j == IndexOf(s, "]")
           name == SubSeq(s, 2, j - 1)
           body == Reading(SubSeq(s, j + 1, Len(s)))
           k == IndexOf(body.rest, "]")
           closing == SubSeq(body.rest, 3, k - 1)
           more == Reading(SubSeq(body.rest, k + 1, Len(body.rest)))
           paired == /\ j > 0
                     /\ PlainName(name)
                     /\ body.ok
                     /\ StartsWith(body.rest, <<"[", "/">>)
                     /\ k > 0
                     /\ SameName(name, closing)
                     /\ more.ok
       IN IF paired
          THEN [ok |-> TRUE,
                items |-> <<[Node(name, EmptyObject) EXCEPT !.children = body.items]>>
                            \o more.items,
                rest |-> more.rest]
          ELSE [ok |-> FALSE, items |-> <<>>, rest |-> <<>>]

\* The input is built only from tag-free text and well-nested pairs of
\* supported plain tags.
WellNested == Reading(text).ok /\ Reading(text).rest = <<>>

RECURSIVE Depth(_)
\* The nesting depth of a tree: 0 for a node without Tag children.
Depth(node) ==
  LET below == {Depth(node.children[i]) + 1 :
                  i \in {k \in 1..Len(node.children) : node.children[k].kind = "Tag"}}
  IN IF below = {} THEN 0 ELSE CHOOSE d \in below : \A e \in below : e <= d

\* C21: for a well-nested input built only from tag-free text and pairs
\* [t]...[/t] of supported plain tags, a strict parse returns the tree the
\* recursive reading of the brackets gives: one Tag per pair holding the
\* reading of its body, siblings in input order, nesting as in the brackets.
C21_WellNested ==
  (~lenient /\ outcome.kind # "running" /\ WellNested)
  => /\ outcome.kind = "returned"
     /\ rootNode = RootNode(Reading(text).items)

\* C21 witness: a strict parse of [b][i]X[/i][/b] has returned a tree of
\* depth 2.
C21_Witness ==
  /\ ~lenient
  /\ text = S("[b]") \o S("[i]") \o S("X") \o S("[/i]") \o S("[/b]")
  /\ WellNested
  /\ outcome.kind = "returned"
  /\ Depth(rootNode) = 2

\* The two names of the mismatch message, `Expected closing tag for '...',
\* found '...'.`: the one it gives as expected and the one it gives as found.
ExpectedName == outcome.closing
FoundName == outcome.found

\* C22: the mismatched-closing-tag error reports the innermost open tag as
\* the expected name and the closing tag that was met as the found name: a
\* strict parse of [b]X[/i] reports expected b, found i.
C22_MismatchNames ==
  [][(/\ CompletesClosingTag
      /\ ~lenient
      /\ Len(FoldedStack) >= 2
      /\ ~SameName(Top(FoldedStack).name, currentTagName))
     => /\ outcome'.kind = "MismatchError"
        /\ ExpectedName' = Top(FoldedStack).name
        /\ FoundName' = currentTagName]_vars

RECURSIVE Rendering(_)
\* The rendering the format gives a node: a Tag is `[name`, `=value` when a
\* value is set, ` key=value` per attribute, `]`, the children, `[/name]`; a
\* Text is its text; a Root its children; a ListItem `[*]` and its children.
Rendering(node) ==
  LET inner == Concat([i \in 1..Len(node.children) |-> Rendering(node.children[i])])
      pairs == Concat([i \in 1..Len(node.attributes) |->
                         <<" ">> \o node.attributes[i].key \o <<"=">>
                           \o node.attributes[i].value])
  IN CASE node.kind = "Text" -> node.text
       [] node.kind = "Root" -> inner
       [] node.kind = "ListItem" -> <<"[", "*", "]">> \o inner
       [] OTHER -> <<"[">> \o node.name
                     \o (IF node.hasValue THEN <<"=">> \o node.value ELSE <<>>)
                     \o pairs \o <<"]">> \o inner \o <<"[", "/">> \o node.name \o <<"]">>

\* C23: rendering: for every node the parser has built, toString() is the
\* rendering of the format; a Tag's value is written as `=value` whenever it
\* is set, also when it was set to the empty string by `[name=]`.
C23_Rendering ==
  \A i \in 1..Len(currentStack) :
    \A n \in NodesOf(currentStack[i]) : toString(n) = Rendering(n)

\* The bracket sequence being read in TagName mode began with `[/`: before
\* the name read so far stands a `/` (a `/` is never part of the start of a
\* name, line 186).
SequenceBeganWithSlash ==
  LET n == Len(consumed) - Len(currentTagName)
  IN n >= 1 /\ consumed[n] = "/"

\* C24: whenever the parser is at the terminator of a tag name, the closing
\* flag is set iff the bracket sequence being read began with `[/`; a flag
\* left by an earlier bracket sequence never makes a later [name] a closing
\* tag.
C24_ClosingFlag ==
  (\E c \in {"]", " ", "="} : ReadsInTagName(c))
  => (buildingClosingTag <=> SequenceBeganWithSlash)

\* At index i of the input stands an opening sequence of the name: `[`, not
\* followed by `/`, the name, and a terminator of the name.
OpensAt(i, name) ==
  /\ i + Len(name) + 1 <= Len(text)
  /\ text[i] = "["
  /\ SubSeq(text, i + 1, i + Len(name)) = name
  /\ text[i + Len(name) + 1] \in {"]", " ", "="}

\* At index j of the input stands a closing sequence [/c] with c the name
\* under the case rule.
ClosesAt(j, name) ==
  /\ j + Len(name) + 2 <= Len(text)
  /\ text[j] = "[" /\ text[j + 1] = "/"
  /\ SameName(SubSeq(text, j + 2, j + Len(name) + 1), name)
  /\ text[j + Len(name) + 2] = "]"

\* C25: in a tree returned by a strict parse every Tag comes from a
\* well-formed pair of the input: an opening sequence of its name that does
\* not begin with `[/`, and a closing sequence [/name] later in the input; a
\* sequence that begins with `[/` pushes no Tag.
C25_TagsFromPairs ==
  (~lenient /\ outcome.kind = "returned")
  => \A n \in NodesOf(rootNode) :
       n.kind = "Tag"
       => \E i, j \in 1..Len(text) :
            /\ i < j
            /\ n.name[1] # "/"
            /\ OpensAt(i, n.name)
            /\ ClosesAt(j, n.name)

\* The tag name being read, with the characters still to come up to its
\* terminator; <<>> stands in when the input ends before a terminator.  A `/`
\* read while the name is empty is not part of the name.
NameToCome ==
  LET ends == {i \in 1..Len(textLeft) : textLeft[i] \in {"]", " ", "="}}
      n == IF ends = {} THEN 0 ELSE (CHOOSE i \in ends : \A j \in ends : i <= j) - 1
      ahead == SubSeq(textLeft, 1, n)
      slashes == IF currentTagName # <<>> THEN 0
                 ELSE IF \A i \in 1..n : ahead[i] = "/" THEN n
                 ELSE (CHOOSE i \in 1..n : ahead[i] # "/" /\ \A j \in 1..(i - 1) : ahead[j] = "/") - 1
  IN currentTagName \o SubSeq(ahead, slashes + 1, n)

\* The name being read will fail validation at its terminator.
WillBeRejected ==
  /\ \E i \in 1..Len(textLeft) : textLeft[i] \in {"]", " ", "="}
  /\ ~(/\ getNameRespectingSensitivity(this, NameToCome) \in supportedTagNames
        /\ (~buildingCode \/ toLowerCase(NameToCome) = S_code))

\* C26: rejecting a tag changes nothing but the text: while a name that
\* fails validation is read the working stack and the children of its frames
\* stay as they were just after the `[`, and at the terminator the parser
\* returns to Text mode and appends exactly `[` or `[/`, the name and the
\* terminator to the text buffer.
C26_RejectChangesOnlyText ==
  [][(InLoop /\ ~buildingText /\ buildingTagName /\ WillBeRejected)
     => /\ currentStack' = currentStack
        /\ Head(textLeft) \in {"]", " ", "="}
           => /\ buildingText'
              /\ currentText' = currentText
                                   \o (IF SequenceBeganWithSlash THEN <<"[", "/">> ELSE <<"[">>)
                                   \o currentTagName \o <<Head(textLeft)>>]_vars

RECURSIVE After(_, _)
\* The locals of the call after its first k characters have been read.
After(input, k) ==
  IF k = 0 THEN InitLocals(input) ELSE LoopBody(this, After(input, k - 1))

\* The position of the `[` that began the bracket sequence being read: the
\* last character read in Text mode.
UnterminatedAt ==
  CHOOSE k \in 1..Len(text) :
    /\ After(text, k - 1).buildingText
    /\ \A j \in (k + 1)..Len(text) : ~After(text, j - 1).buildingText

\* The children of the top frame, with t appended as addChild appends a Text.
WithText(kids, t) ==
  IF kids # <<>> /\ kids[Len(kids)].kind = "Text"
  THEN [kids EXCEPT ![Len(kids)] = TextNode(kids[Len(kids)].text \o t)]
  ELSE Append(kids, TextNode(t))

\* C27: when the input ends inside a bracket sequence, the Text appended at
\* the end of input is exactly the input from the unterminated `[` on.
C27_UnterminatedSuffix ==
  [][(outcome.kind = "running" /\ textLeft = <<>> /\ ~buildingText /\ ~lenient)
     => Top(currentStack').children
          = WithText(Top(currentStack).children,
                     SubSeq(text, UnterminatedAt, Len(text)))]_vars

\* The children a Root has when the text t stands before the input that gave
\* kids: t is a Text of its own, or the head of the Text kids begin with.
AfterText(t, kids) ==
  IF kids # <<>> /\ kids[1].kind = "Text"
  THEN [kids EXCEPT ![1] = TextNode(t \o kids[1].text)]
  ELSE <<TextNode(t)>> \o kids

\* C28: quote characters outside a tag do not affect how a tag is split: for
\* an input T + G, with T free of `[` and G beginning with `[`, the call ends
\* as parse(G) ends and returns the nodes of parse(G) after the text T.
C28_TextBeforeTag ==
  (outcome.kind # "running" /\ \E i \in 2..Len(text) : text[i] = "[" /\ text[1] # "[")
  => LET k == CHOOSE i \in 2..Len(text) : text[i] = "[" /\ \A j \in 1..(i - 1) : text[j] # "["
         T == SubSeq(text, 1, k - 1)
         G == SubSeq(text, k, Len(text))
         alone == parse(this, G)
     IN /\ outcome = alone.outcome
        /\ outcome.kind = "returned"
           => rootNode.children = AfterText(T, alone.currentStack[1].children)

\* The attribute names of pairs are distinct.
DistinctKeys(pairs) ==
  \A i, j \in 1..Len(pairs) : pairs[i].key = pairs[j].key => i = j

\* The Root holds one Tag b and nothing else, with the attributes pairs.
OneTag(pairs) ==
  /\ Len(rootNode.children) = 1
  /\ rootNode.children[1].kind = "Tag"
  /\ rootNode.children[1].name = <<"b">>
  /\ rootNode.children[1].attributes = pairs
  /\ rootNode.children[1].children = <<>>

\* C29: an opening tag [n=v k1=v1 ... km=vm] or [n k1=v1 ... km=vm] with a
\* supported name, non-empty quote-free space-free values and distinct
\* attribute names pushes exactly one Tag with name n, value v (unset in the
\* second form) and the attributes k1: v1, ..., km: vm in that order.
C29_OpeningTag ==
  outcome.kind = "returned"
  => \A pairs \in PairSeqs \cup {<<>>} :
       DistinctKeys(pairs)
       => /\ text = ValueAttributeInput(<<"v">>, pairs)
             => /\ OneTag(pairs)
                /\ rootNode.children[1].hasValue
                /\ rootNode.children[1].value = <<"v">>
          /\ (pairs # <<>> /\ text = AttributeInput(pairs))
             => /\ OneTag(pairs)
                /\ ~rootNode.children[1].hasValue

RECURSIVE WithoutItemClosers(_)
\* The input s with every [/*] taken out.
WithoutItemClosers(s) ==
  IF s = <<>> THEN <<>>
  ELSE IF StartsWith(s, <<"[", "/", "*", "]">>) THEN WithoutItemClosers(SubSeq(s, 5, Len(s)))
  ELSE <<Head(s)>> \o WithoutItemClosers(Tail(s))

\* C30: [*] and [/*] parse symmetrically: an explicit [/*] read while a list
\* item is the innermost open frame closes that item as the next [* or
\* [/list] would, folding it into the frame under it, and a list whose items
\* are followed by [/*] gives the tree of the same list without any [/*].
C30_ExplicitItemClose ==
  /\ []((outcome.kind # "running" /\ text \in ClosedListInputs)
        => LET open == parse(this, WithoutItemClosers(text))
           IN /\ outcome.kind = "returned"
              /\ open.outcome.kind = "returned"
              /\ rootNode = open.currentStack[1])
  /\ [][(/\ CompletesClosingTag
          /\ currentTagName = S_star
          /\ Len(currentStack) >= 2
          /\ Top(currentStack).kind = "ListItem")
         => currentStack' = [Pop(currentStack) EXCEPT
                               ![Len(currentStack) - 1] = addChild(@, Top(currentStack))]]_vars

\* C30 witness: the strict parse of [list][*]A[/*][*]B[/*][/list] has returned.
C30_Witness ==
  /\ text = ClosedListInput(<<S("A"), S("B")>>, <<TRUE, TRUE>>)
  /\ ~lenient
  /\ outcome.kind = "returned"

\* C31: in every tree returned by a strict parse, each ListItem is a direct
\* child of a Tag named list, and every node named `*` is a ListItem.
C31_ListItemsInLists ==
  (~lenient /\ outcome.kind = "returned")
  => \A n \in NodesOf(rootNode) :
       /\ \A i \in 1..Len(n.children) :
            n.children[i].kind = "ListItem"
            => n.kind = "Tag" /\ toLowerCase(n.name) = S_list
       /\ n.name = S_star => n.kind = "ListItem"

\* The working stack is the Root of this call under open Tags and ListItems.
StackShape(stack) ==
  /\ stack # <<>>
  /\ stack[1].kind = "Root"
  /\ \A i \in 2..Len(stack) : stack[i].kind \in {"Tag", "ListItem"}

\* C32: working-stack invariant: while a call has not failed, in both modes
\* and for any allow-list (also one holding RootNode), the working stack is
\* non-empty, its bottom frame is the Root and every frame above it is a Tag
\* or a ListItem; and a closing tag that is not refused with the mismatch
\* error never pops the Root.
C32_WorkingStack ==
  /\ [](outcome.kind \in {"running", "returned"} => StackShape(currentStack))
  /\ [][(ReadsInTagName("]") /\ buildingClosingTag /\ IsValidTagName(this, Locals)
          /\ outcome'.kind # "MismatchError")
         => StackShape(currentStack')]_vars

\* C33: parse terminates on every finite input in both modes: every call
\* returns or throws; each iteration of the main loop takes exactly one
\* character off the input; the lenient search on a closing tag leaves the
\* stack shorter than it found it, and the lenient flattening at the end of
\* the input leaves the Root alone on the stack, unless they throw.
C33_Terminates ==
  /\ <>(outcome.kind # "running")
  /\ [][InLoop => textLeft' = Tail(textLeft)]_vars
  /\ [][(lenient /\ ReadsInTagName("]") /\ buildingClosingTag /\ IsValidTagName(this, Locals))
         => \/ outcome'.kind = "TypeError"
            \/ outcome'.kind = "running" /\ Len(currentStack') < Len(currentStack)]_vars
  /\ [][(lenient /\ outcome.kind = "running" /\ textLeft = <<>>)
         => \/ outcome'.kind = "TypeError"
            \/ outcome'.kind = "returned" /\ Len(currentStack') = 1]_vars

\* C33 witness: a lenient call has returned after a closing tag that matched
\* no open frame on top and an end of input with a frame still open.
C33_Witness ==
  /\ text = S("[b]") \o S("[i]") \o S("[/b]") \o S("[i]") \o S("X")
  /\ lenient
  /\ outcome.kind = "returned"

\* C34: in every returned tree no attribute key of a Tag is empty or holds
\* `[`, `]`, a space or `=`, and no Tag value holds `]`; and inside an opening
\* tag (value, attribute name or attribute value mode) the next `]` completes
\* the tag and returns the parser to Text mode.
C34_BracketEndsTag ==
  /\ [](outcome.kind = "returned"
        => \A n \in NodesOf(rootNode) :
             n.kind = "Tag"
             => /\ \A i \in 1..Len(n.attributes) :
                     /\ n.attributes[i].key # <<>>
                     /\ \A j \in 1..Len(n.attributes[i].key) :
                          n.attributes[i].key[j] \notin {"[", "]", " ", "="}
                /\ \A j \in 1..Len(n.value) : n.value[j] # "]")
  /\ [][(InLoop /\ ~buildingText /\ ~buildingTagName /\ Head(textLeft) = "]")
         => buildingText' /\ Len(currentStack') = Len(currentStack) + 1]_vars

\* C35: in every tree returned by parse, every Text node has non-empty text.
C35_NoEmptyText ==
  outcome.kind = "returned"
  => \A n \in NodesOf(rootNode) : n.kind = "Text" => n.text # <<>>

\* C35 witness: a lenient parse has returned a tree whose Texts were made of
\* a frame flattened by a closing tag and of a frame flattened at the end of
\* the input after a flush of the text buffer.
C35_Witness ==
  /\ text = S("[b]") \o S("[i]") \o S("[/b]") \o S("[i]") \o S("X")
  /\ lenient
  /\ outcome.kind = "returned"
  /\ rootNode.children[1].children = <<TextNode(S("[i]"))>>
  /\ rootNode.children[2] = TextNode(S("[i]") \o S("X"))

\* The number of mode flags that are set.
FlagsSet ==
  (IF buildingText THEN 1 ELSE 0) + (IF buildingTagName THEN 1 ELSE 0)
    + (IF buildingValue THEN 1 ELSE 0) + (IF buildingAttributeName THEN 1 ELSE 0)

\* C36: the mode flags encode exactly one mode at every step of parse: at most
\* one of buildingText, buildingTagName, buildingValue and
\* buildingAttributeName is true; all four are false only in AttributeValue
\* mode, which is entered from AttributeName mode at `=`; buildingText is true
\* at the start and after every completed or rejected tag.
C36_OneMode ==
  /\ [](FlagsSet <= 1)
  /\ [](textLeft = text => buildingText /\ FlagsSet = 1)
  /\ [][(InLoop /\ FlagsSet' = 0)
         => \/ FlagsSet = 0
            \/ buildingAttributeName /\ Head(textLeft) = "="]_vars
  /\ [][(/\ InLoop /\ ~buildingText /\ outcome'.kind = "running"
          /\ \/ Len(currentStack') > Len(currentStack)
             \/ buildingTagName /\ Head(textLeft) = "]"
             \/ buildingTagName /\ Head(textLeft) \in {" ", "="} /\ ~IsValidTagName(this, Locals))
         => buildingText' /\ FlagsSet' = 1]_vars

\* C36 witness: the parser is reading the value of the attribute a of
\* [b=r a=1]: no mode flag is set.
C36_Witness ==
  /\ text = S("[b=r a=1]") \o S("X") \o S("[/b]")
  /\ outcome.kind = "running"
  /\ FlagsSet = 0
  /\ currentTagAttributeName = <<"a">>
  /\ textLeft = <<"1", "]">> \o S("X") \o S("[/b]")

====
